---------------------------- MODULE Spec2Model ----------------------------
(* Matchmaking service (main.go): the MySQL waiting queue and sessions     *)
(* table, the in-memory waitingChans registry, the matchmakingProcessor    *)
(* loop and the matchmakingHandler request goroutines.                     *)
(*                                                                         *)
(* Time.  The program reads the clock in insertWaitingPlayer (NOW(), a     *)
(* DATETIME in whole seconds) and in createSession (time.Now()), and it    *)
(* waits in time.Sleep(1s) and time.After(30s).  Both waits are lower      *)
(* bounds only, so all that a run can observe of the clock is the order    *)
(* and the equality of the readings and whether a wait has elapsed.  `now` *)
(* is the clock reading with the readings renumbered 0, 1, 2, ...: a       *)
(* second in which nobody read the clock is not counted.  TimePasses lets  *)
(* the clock move on and every running wait elapse.                        *)
(*                                                                         *)
(* Steps.  An action is one access to shared state (a table, the mutex-    *)
(* guarded map, a channel) together with the goroutine-local statements    *)
(* around it.  The handler's critical sections hold no blocking statement  *)
(* and are single steps; the processor's critical section holds two        *)
(* channel sends and is two steps.  A storage error may strike any         *)
(* statement that goes to the database, MaxFails times in a run.           *)
(*                                                                         *)
(* Lifetime.  Spec is one run of the process.  LifetimeSpec lets the process*)
(* be stopped and started again, MaxRestarts times: the tables and the clock*)
(* go on, everything in memory is lost.                                    *)
EXTENDS Integers, Sequences, FiniteSets, TLC

\* ------------------------------------------------------------ bounds
MaxReqs == 3
MaxFails == 1
MaxRestarts == 1

Reqs == 1..MaxReqs
PlayerIds == {"a", "b", "c", "d"}
\* Rating is payload the program only copies: each request brings its own value
RatingOf == [r \in Reqs |-> 1000 + 100 * r]

\* ------------------------------------------------- program constants
StatusOK == 200
StatusBadRequest == 400
StatusInternalServerError == 500
StatusGatewayTimeout == 504
ChanCap == 1

NoPlayer == [ID |-> "", Rating |-> 0]
NoSession == [SessionID |-> <<"none", 0>>, Player1 |-> NoPlayer, Player2 |-> NoPlayer]
NoResponse == [status |-> 0, body |-> "", session |-> NoSession]
NoReq == 0

VARIABLES
    now,          \* the clock reading
    stamped,      \* the clock was read at the current reading
    queue,        \* table matchmaking_queue, rows in the order they were inserted
    sessions,     \* table sessions
    waitingChans, \* map player id -> channel (a channel is named by the request that made it)
    chanBuf,      \* the buffer of each request's matchChan
    mutexHeld,    \* waitingChansMutex is held by the processor
    pc,           \* each request's position in matchmakingHandler
    player,       \* each request's decoded Player
    expired,      \* each request's time.After(30s) has fired
    response,     \* what each request wrote to its ResponseWriter
    mpc,          \* the processor's position in its loop body
    slept,        \* the processor's time.Sleep(1s) has elapsed
    players,      \* the processor's local `players`
    session,      \* the processor's local `session`
    txDeleted,    \* player ids deleted inside the processor's open transaction
    fails,        \* storage errors injected so far
    committed,    \* history: SessionIDs of the transactions that committed
    matchOf,      \* history: for each request, the session whose commit removed its row
    minted,       \* history: the SessionIDs createSession has returned
    restarts      \* how many times the process has been started again

vars == <<now, stamped, queue, sessions, waitingChans, chanBuf, mutexHeld, pc,
          player, expired, response, mpc, slept, players, session, txDeleted,
          fails, committed, matchOf, minted, restarts>>

\* ------------------------------------------------------------ helpers
QueueIds(q) == {q[i].player_id : i \in DOMAIN q}

RECURSIVE SelectSeq2(_, _)
\* the rows of q whose player_id is not in ids, in order
SelectSeq2(q, ids) ==
    IF q = <<>> THEN <<>>
    ELSE IF Head(q).player_id \in ids THEN SelectSeq2(Tail(q), ids)
         ELSE <<Head(q)>> \o SelectSeq2(Tail(q), ids)

\* mutant: player_id is not a key, no INSERT is refused
NoPrimaryKey(q, id) == FALSE

\* PRIMARY KEY (player_id) of matchmaking_queue: an INSERT of a present key fails
DuplicateKey(q, id) == id \in QueueIds(q)

\* INSERT INTO matchmaking_queue (player_id, rating, waiting_since) VALUES (?, ?, NOW())
insertWaitingPlayer(q, p, t, r) ==
    Append(q, [player_id |-> p.ID, rating |-> p.Rating, waiting_since |-> t, req |-> r])

\* DELETE FROM matchmaking_queue WHERE player_id = ?
deleteWaitingPlayer(q, id) == SelectSeq2(q, {id})

\* mutant: the DELETE names only the first of the two players
DeleteFirstOnly(q, id1, id2) == SelectSeq2(q, {id1})

\* DELETE FROM matchmaking_queue WHERE player_id IN (?, ?)
DeleteIn(q, id1, id2) == SelectSeq2(q, {id1, id2})

\* ... ORDER BY waiting_since ASC: every order of the rows that is ascending in
\* waiting_since; rows with equal waiting_since come in an order SQL leaves open
OrderBy(q) ==
    LET n == Len(q)
        perms == {f \in [1..n -> 1..n] :
                     /\ \A i, j \in 1..n : i # j => f[i] # f[j]
                     /\ \A i, j \in 1..n : i < j =>
                            q[f[i]].waiting_since <= q[f[j]].waiting_since}
    IN {[i \in 1..n |-> q[f[i]]] : f \in perms}

\* SELECT player_id, rating ... scanned into []Player
getWaitingPlayers(q) ==
    {[i \in 1..Len(rows) |-> [ID |-> rows[i].player_id, Rating |-> rows[i].rating]] :
        rows \in OrderBy(q)}

\* mutant: the id is formatted from a constant, not from the clock reading
SessionIDFixed(t) == <<"session", 0>>

\* fmt.Sprintf("session-%d", time.Now().UnixNano())
SessionID(t) == <<"session", t>>

\* mutant: both players of the session are players[0]
createSessionOfFirst(p1, p2, t) == [SessionID |-> SessionID(t), Player1 |-> p1, Player2 |-> p1]

\* createSession(p1, p2), t the reading of time.Now()
createSession(p1, p2, t) == [SessionID |-> SessionID(t), Player1 |-> p1, Player2 |-> p2]

\* the row insertSession writes
SessionRow(s) ==
    [session_id |-> s.SessionID, player1_id |-> s.Player1.ID, player2_id |-> s.Player2.ID]

SessionIds(ss) == {s.session_id : s \in ss}

\* rows locked by the processor's SELECT ... FOR UPDATE until its transaction ends
InTx == mpc \in {"delete", "insertSession", "commit"}
Locked == IF InTx THEN {players[i].ID : i \in DOMAIN players} ELSE {}

\* a statement or transaction that fails with a storage error
StorageError ==
    /\ fails < MaxFails
    /\ fails' = fails + 1

\* -------------------------------------------------------------- Init
Init ==
    /\ now = 0
    /\ stamped = FALSE
    /\ queue = <<>>
    /\ sessions = {}
    /\ waitingChans = [id \in PlayerIds |-> NoReq]
    /\ chanBuf = [r \in Reqs |-> <<>>]
    /\ mutexHeld = FALSE
    /\ pc = [r \in Reqs |-> "idle"]
    /\ player = [r \in Reqs |-> NoPlayer]
    /\ expired = [r \in Reqs |-> FALSE]
    /\ response = [r \in Reqs |-> NoResponse]
    /\ mpc = "sleep"
    /\ slept = FALSE
    /\ players = <<>>
    /\ session = NoSession
    /\ txDeleted = {}
    /\ fails = 0
    /\ committed = {}
    /\ matchOf = [r \in Reqs |-> NoSession.SessionID]
    /\ minted = {}
    /\ restarts = 0

\* -------------------------------------------------------------- time
\* The clock moves on; Sleep(1s) and every running time.After(30s) elapse.
TimePasses ==
    /\ now' = IF stamped THEN now + 1 ELSE now
    /\ stamped' = FALSE
    /\ slept' = (slept \/ mpc = "sleep")
    /\ expired' = [r \in Reqs |-> expired[r] \/ pc[r] = "select"]
    /\ UNCHANGED <<queue, sessions, waitingChans, chanBuf, mutexHeld, pc, player,
                   response, mpc, players, session, txDeleted, fails, committed, matchOf, minted, restarts>>

\* ------------------------------------------------ matchmakingHandler
Respond(r, status, body, s) ==
    /\ response' = [response EXCEPT ![r] = [status |-> status, body |-> body, session |-> s]]
    /\ pc' = [pc EXCEPT ![r] = "done"]

\* The ids a request may carry: player ids matter only by equality, so a
\* request brings an id already seen or the first id not yet seen.
SeenIds == {player[q].ID : q \in Reqs} \ {""}
NextIds ==
    SeenIds \cup (IF SeenIds = {} THEN {"a"}
                  ELSE IF SeenIds = {"a"} THEN {"b"}
                  ELSE IF SeenIds = {"a", "b"} THEN {"c"}
                  ELSE IF SeenIds = {"a", "b", "c"} THEN {"d"} ELSE {})

\* json.NewDecoder(r.Body).Decode(&player) fails: 400, nothing else is touched.
\* Requests are numbered in the order in which they get past Decode.
BadRequest(r) ==
    /\ pc[r] = "idle"
    /\ IF r = 1 THEN TRUE ELSE pc[r - 1] # "idle"
    /\ Respond(r, StatusBadRequest, "Invalid request", NoSession)
    /\ UNCHANGED <<now, stamped, queue, sessions, waitingChans, chanBuf, mutexHeld,
                   player, expired, mpc, slept, players, session, txDeleted, fails,
                   committed, matchOf, minted, restarts>>

\* Decode succeeds, then insertWaitingPlayer(player) and the handler's
\* `if err != nil` branch (500 for every error, a duplicate key included).  The
\* INSERT waits while the processor's transaction holds the row of the same key.
Enqueue(r) ==
    /\ pc[r] = "idle"
    /\ IF r = 1 THEN TRUE ELSE pc[r - 1] # "idle"
    /\ \E id \in NextIds :
          LET p == [ID |-> id, Rating |-> RatingOf[r]] IN
          /\ id \notin Locked
          /\ player' = [player EXCEPT ![r] = p]
          /\ \/ /\ ~DuplicateKey(queue, id)
                /\ queue' = insertWaitingPlayer(queue, p, now, r)
                /\ stamped' = TRUE
                /\ pc' = [pc EXCEPT ![r] = "register"]
                /\ UNCHANGED <<response, fails>>
             \/ /\ DuplicateKey(queue, id)
                /\ Respond(r, StatusInternalServerError, "Failed to register waiting player", NoSession)
                /\ UNCHANGED <<queue, stamped, fails>>
             \/ /\ StorageError
                /\ Respond(r, StatusInternalServerError, "Failed to register waiting player", NoSession)
                /\ UNCHANGED <<queue, stamped>>
    /\ UNCHANGED <<now, sessions, waitingChans, chanBuf, mutexHeld, expired,
                   mpc, slept, players, session, txDeleted, committed, matchOf, minted, restarts>>

\* matchChan := make(chan SessionResult, 1); waitingChans[player.ID] = matchChan
\* under the mutex; the select that follows starts time.After(30s)
Register(r) ==
    /\ pc[r] = "register"
    /\ ~mutexHeld
    /\ waitingChans' = [waitingChans EXCEPT ![player[r].ID] = r]
    /\ expired' = [expired EXCEPT ![r] = FALSE]
    /\ pc' = [pc EXCEPT ![r] = "select"]
    /\ UNCHANGED <<now, stamped, queue, sessions, chanBuf, mutexHeld, player, response,
                   mpc, slept, players, session, txDeleted, fails, committed, matchOf, minted, restarts>>

\* the cases of the select that can proceed; Go picks one of them at random
SelectReady(r) ==
    (IF chanBuf[r] # <<>> THEN {"recv"} ELSE {}) \cup (IF expired[r] THEN {"timeout"} ELSE {})

\* case session := <-matchChan: the session is written as the response
Receive(r) ==
    /\ pc[r] = "select"
    /\ "recv" \in SelectReady(r)
    /\ chanBuf' = [chanBuf EXCEPT ![r] = Tail(chanBuf[r])]
    /\ Respond(r, StatusOK, "session", Head(chanBuf[r]))
    /\ UNCHANGED <<now, stamped, queue, sessions, waitingChans, mutexHeld, player,
                   expired, mpc, slept, players, session, txDeleted, fails,
                   committed, matchOf, minted, restarts>>

\* mutant: the timeout case does not delete the waitingChans entry
TimeoutKeepsEntry(r) ==
    /\ pc[r] = "select"
    /\ "timeout" \in SelectReady(r)
    /\ ~mutexHeld
    /\ pc' = [pc EXCEPT ![r] = "dequeue"]
    /\ UNCHANGED <<now, stamped, queue, sessions, waitingChans, chanBuf, mutexHeld, player,
                   expired, response, mpc, slept, players, session, txDeleted, fails,
                   committed, matchOf, minted, restarts>>

\* case <-time.After(30 * time.Second): delete(waitingChans, player.ID) under the mutex
Timeout(r) ==
    /\ pc[r] = "select"
    /\ "timeout" \in SelectReady(r)
    /\ ~mutexHeld
    /\ waitingChans' = [waitingChans EXCEPT ![player[r].ID] = NoReq]
    /\ pc' = [pc EXCEPT ![r] = "dequeue"]
    /\ UNCHANGED <<now, stamped, queue, sessions, chanBuf, mutexHeld, player, expired,
                   response, mpc, slept, players, session, txDeleted, fails,
                   committed, matchOf, minted, restarts>>

\* deleteWaitingPlayer(player.ID), an error of which is only logged, then
\* http.Error(w, "No opponent found within timeout", http.StatusGatewayTimeout).
\* The DELETE waits while the processor's transaction holds the row.
Dequeue(r) ==
    /\ pc[r] = "dequeue"
    /\ player[r].ID \notin Locked
    /\ \/ /\ queue' = deleteWaitingPlayer(queue, player[r].ID)
          /\ UNCHANGED fails
       \/ /\ StorageError
          /\ UNCHANGED queue
    /\ Respond(r, StatusGatewayTimeout, "No opponent found within timeout", NoSession)
    /\ UNCHANGED <<now, stamped, sessions, waitingChans, chanBuf, mutexHeld, player,
                   expired, mpc, slept, players, session, txDeleted,
                   committed, matchOf, minted, restarts>>

matchmakingHandler(r) ==
    \/ BadRequest(r)
    \/ Enqueue(r)
    \/ Register(r)
    \/ Receive(r)
    \/ Timeout(r)
    \/ Dequeue(r)

\* ---------------------------------------------- matchmakingProcessor
\* mutant: an error ends the loop (log.Fatalf for log.Printf)
ExitOnError ==
    /\ mpc' = "exited"
    /\ slept' = FALSE
    /\ players' = <<>>
    /\ session' = NoSession
    /\ txDeleted' = {}

\* the end of the loop body: back to time.Sleep(1 * time.Second); the loop
\* body's locals go out of scope and an open transaction is over
NextTick ==
    /\ mpc' = "sleep"
    /\ slept' = FALSE
    /\ players' = <<>>
    /\ session' = NoSession
    /\ txDeleted' = {}

\* log.Printf(...), tx.Rollback() where there is a transaction, and `continue`
OnError == NextTick

\* Once the Sleep has elapsed: tx, err := db.Begin(); players, err :=
\* getWaitingPlayers(tx); then the branch on len(players): with fewer than two,
\* tx.Commit() and the next tick; with two or more,
\* session := createSession(players[0], players[1])
Query ==
    /\ mpc = "sleep"
    /\ slept
    /\ \/ \E ps \in getWaitingPlayers(queue) :
             IF Len(ps) >= 2
             THEN /\ players' = ps
                  /\ session' = createSession(ps[1], ps[2], now)
                  /\ minted' = minted \cup {session'.SessionID}
                  /\ stamped' = TRUE
                  /\ mpc' = "delete"
                  /\ UNCHANGED <<slept, txDeleted, fails>>
             ELSE /\ NextTick
                  /\ UNCHANGED <<stamped, fails, minted>>
       \/ /\ StorageError
          /\ OnError
          /\ UNCHANGED <<stamped, minted>>
    /\ UNCHANGED <<now, queue, sessions, waitingChans, chanBuf, mutexHeld,
                   pc, player, expired, response, committed, matchOf, restarts>>

\* tx.Exec(delQuery, p1.ID, p2.ID): the rows go when the transaction commits
Delete ==
    /\ mpc = "delete"
    /\ \/ /\ txDeleted' = QueueIds(queue) \ QueueIds(DeleteIn(queue, players[1].ID, players[2].ID))
          /\ mpc' = "insertSession"
          /\ UNCHANGED <<slept, players, session, fails>>
       \/ /\ StorageError
          /\ OnError
    /\ UNCHANGED <<now, stamped, queue, sessions, waitingChans, chanBuf, mutexHeld,
                   pc, player, expired, response, committed, matchOf, minted, restarts>>

\* insertSession(session): db.Exec, not tx.Exec, so the row is written on another
\* connection and stays whatever becomes of the transaction
InsertSession ==
    /\ mpc = "insertSession"
    /\ \/ /\ session.SessionID \notin SessionIds(sessions)
          /\ sessions' = sessions \cup {SessionRow(session)}
          /\ mpc' = "commit"
          /\ UNCHANGED <<slept, players, session, txDeleted, fails>>
       \/ /\ session.SessionID \in SessionIds(sessions)
          /\ OnError
          /\ UNCHANGED <<sessions, fails>>
       \/ /\ StorageError
          /\ OnError
          /\ UNCHANGED sessions
    /\ UNCHANGED <<now, stamped, queue, waitingChans, chanBuf, mutexHeld,
                   pc, player, expired, response, committed, matchOf, minted, restarts>>

\* the requests whose rows a commit removes
RemovedReqs(q, ids) == {q[i].req : i \in {j \in DOMAIN q : q[j].player_id \in ids}}

\* mutant: the error of tx.Commit() is logged and the tick goes on to its sends
CommitUnchecked ==
    /\ mpc = "commit"
    /\ \/ /\ queue' = SelectSeq2(queue, txDeleted)
          /\ committed' = committed \cup {session.SessionID}
          /\ matchOf' = [r \in Reqs |->
                           IF r \in RemovedReqs(queue, txDeleted)
                           THEN session.SessionID ELSE matchOf[r]]
          /\ mpc' = "send1"
          /\ UNCHANGED <<slept, players, session, txDeleted, fails>>
       \/ /\ StorageError
          /\ mpc' = "send1"
          /\ txDeleted' = {}
          /\ UNCHANGED <<queue, committed, matchOf, slept, players, session>>
    /\ UNCHANGED <<now, stamped, sessions, waitingChans, chanBuf, mutexHeld,
                   pc, player, expired, response, minted, restarts>>

\* tx.Commit() of a tick that matched
Commit ==
    /\ mpc = "commit"
    /\ \/ /\ queue' = SelectSeq2(queue, txDeleted)
          /\ committed' = committed \cup {session.SessionID}
          /\ matchOf' = [r \in Reqs |->
                           IF r \in RemovedReqs(queue, txDeleted)
                           THEN session.SessionID ELSE matchOf[r]]
          /\ mpc' = "send1"
          /\ UNCHANGED <<slept, players, session, txDeleted, fails>>
       \/ /\ StorageError
          /\ OnError
          /\ UNCHANGED <<queue, committed, matchOf, minted, restarts>>
    /\ UNCHANGED <<now, stamped, sessions, waitingChans, chanBuf, mutexHeld,
                   pc, player, expired, response, minted, restarts>>

\* mutant: the send is not followed by delete(waitingChans, id)
NotifyKeepsEntry(id) ==
    IF waitingChans[id] = NoReq
    THEN UNCHANGED <<waitingChans, chanBuf>>
    ELSE /\ Len(chanBuf[waitingChans[id]]) < ChanCap
         /\ chanBuf' = [chanBuf EXCEPT ![waitingChans[id]] = Append(@, session)]
         /\ UNCHANGED waitingChans

\* if ch, ok := waitingChans[id]; ok { ch <- session; delete(waitingChans, id) }
\* The send waits while the channel's buffer is full.
Notify(id) ==
    IF waitingChans[id] = NoReq
    THEN UNCHANGED <<waitingChans, chanBuf>>
    ELSE /\ Len(chanBuf[waitingChans[id]]) < ChanCap
         /\ chanBuf' = [chanBuf EXCEPT ![waitingChans[id]] = Append(@, session)]
         /\ waitingChans' = [waitingChans EXCEPT ![id] = NoReq]

\* waitingChansMutex.Lock() and the first send
Send1 ==
    /\ mpc = "send1"
    /\ ~mutexHeld
    /\ mutexHeld' = TRUE
    /\ Notify(session.Player1.ID)
    /\ mpc' = "send2"
    /\ UNCHANGED <<now, stamped, queue, sessions, pc, player, expired,
                   response, slept, players, session, txDeleted, fails, committed, matchOf, minted, restarts>>

\* the second send, then waitingChansMutex.Unlock() and the end of the loop body
Send2 ==
    /\ mpc = "send2"
    /\ Notify(session.Player2.ID)
    /\ mutexHeld' = FALSE
    /\ NextTick
    /\ UNCHANGED <<now, stamped, queue, sessions, pc, player, expired, response,
                   fails, committed, matchOf, minted, restarts>>

matchmakingProcessor ==
    \/ Query
    \/ Delete
    \/ InsertSession
    \/ Commit
    \/ Send1
    \/ Send2

Next ==
    \/ TimePasses
    \/ matchmakingProcessor
    \/ \E r \in Reqs : matchmakingHandler(r)

Spec == Init /\ [][Next]_vars

\* The Go scheduler runs the processor goroutine and the clock moves on; when
\* requests arrive and when the runtime runs their timers is left open.
LiveSpec == Spec /\ WF_vars(TimePasses) /\ WF_vars(matchmakingProcessor)

\* The process is stopped and started again (main): waitingChans is a new
\* empty map, the channels and goroutines of the old process are gone, its
\* requests end unanswered, an open transaction is rolled back, and a new
\* processor starts with its Sleep.  The tables, which schema.sql creates only
\* where they do not exist, and the clock go on.
Restart ==
    /\ restarts < MaxRestarts
    /\ restarts' = restarts + 1
    /\ waitingChans' = [id \in PlayerIds |-> NoReq]
    /\ chanBuf' = [r \in Reqs |-> <<>>]
    /\ mutexHeld' = FALSE
    /\ pc' = [r \in Reqs |-> IF pc[r] = "idle" THEN "idle" ELSE "done"]
    /\ expired' = [r \in Reqs |-> FALSE]
    /\ NextTick
    /\ UNCHANGED <<now, stamped, queue, sessions, player, response, fails,
                   committed, matchOf, minted>>

\* the system over its lifetime: the program, stopped and started again at any time
LifetimeNext == Next \/ Restart

LifetimeSpec == Init /\ [][LifetimeNext]_vars

\* ====================================================== the claims
None == NoSession.SessionID
Returns(r) == pc[r] # "done" /\ pc'[r] = "done"
ReturnsTimeout(r) == pc[r] = "dequeue" /\ pc'[r] = "done"
TickMatches == mpc = "sleep" /\ mpc' = "delete"
TickInserts == mpc = "insertSession" /\ mpc' = "commit"
TickCommits == mpc = "commit" /\ mpc' = "send1"
Pair(s) == {s.Player1.ID, s.Player2.ID}

\* C1: when a tick has committed its session and done its sends, every request
\* that is still waiting for a match (it has not returned and not timed out)
\* and whose row the session removed holds that session in its matchChan, else
\* it cannot return it; this includes a request that has not yet written its
\* channel into waitingChans.
C1_DeliveryReachesPendingRequests ==
    [][(mpc = "send2" /\ mpc' = "sleep") =>
          \A r \in Reqs :
              (matchOf[r] = session.SessionID /\ pc[r] \in {"register", "select"}) =>
                  chanBuf'[r] = <<session>>]_vars

\* C2: no player id is in two distinct rows of the sessions table.
C2_NoPlayerInTwoSessions ==
    \A s1, s2 \in sessions :
        s1 # s2 => {s1.player1_id, s1.player2_id} \cap {s2.player1_id, s2.player2_id} = {}

\* C3: the two players a tick takes from its snapshot have different ids, and
\* so have the two players of every session row.
C3_NoSelfPairing ==
    /\ \A s \in sessions : s.player1_id # s.player2_id
    /\ mpc # "sleep" => session.Player1.ID # session.Player2.ID

C3_Witness == \E s \in sessions : s.session_id \in committed

\* C4: a tick that creates a session pairs the two rows inserted first among
\* the rows in the queue.
C4_PairsTwoEarliestInserted ==
    [][TickMatches => Pair(session') = {queue[1].player_id, queue[2].player_id}]_vars

\* C5: when a request returns the timeout error, its player id is in neither
\* the waiting queue nor waitingChans.
C5_TimeoutLeavesNoEntry ==
    [][\A r \in Reqs :
         ReturnsTimeout(r) =>
             /\ player[r].ID \notin QueueIds(queue')
             /\ waitingChans'[player[r].ID] = NoReq]_vars

\* C6: the queue never holds two rows of one player id, and a request whose id
\* is in the queue when it inserts changes neither the queue nor waitingChans
\* and returns an error at once, without a session.
C6_DuplicateIsRefused ==
    /\ [](\A i, j \in DOMAIN queue : queue[i].player_id = queue[j].player_id => i = j)
    /\ [][\A r \in Reqs :
            (pc[r] = "idle" /\ pc'[r] # "idle" /\ player'[r].ID \in QueueIds(queue)) =>
                /\ queue' = queue
                /\ waitingChans' = waitingChans
                /\ chanBuf' = chanBuf
                /\ pc'[r] = "done"
                /\ response'[r].status = StatusInternalServerError
                /\ response'[r].session = NoSession]_vars

C6_Witness ==
    \E r \in Reqs :
        /\ pc[r] = "done"
        /\ response[r].status = StatusInternalServerError
        /\ fails = 0
        /\ \E q \in Reqs : q # r /\ pc[q] = "select" /\ player[q].ID = player[r].ID

\* C7: a request returns the internal error only for a storage failure (an id
\* already in the queue gets a status of its own).
C7_InternalOnlyForStorageFailure ==
    [][\A r \in Reqs :
         (Returns(r) /\ response'[r].status = StatusInternalServerError) =>
             fails' # fails]_vars

\* C8: a tick writes one session row; its commit removes two rows of the
\* queue, those of the session's two players, and no other row.
C8_CommitRemovesThePair ==
    [][/\ TickInserts =>
            /\ sessions' = sessions \cup {SessionRow(session)}
            /\ Cardinality(sessions') = Cardinality(sessions) + 1
       /\ TickCommits =>
            /\ Len(queue') = Len(queue) - 2
            /\ QueueIds(queue) \ QueueIds(queue') = Pair(session)
            /\ Cardinality(Pair(session)) = 2
            /\ \A i \in DOMAIN queue :
                   queue[i].player_id \notin Pair(session) =>
                       \E j \in DOMAIN queue' : queue'[j] = queue[i]
            /\ sessions' = sessions
            /\ \E s \in sessions :
                   /\ s.session_id = session.SessionID
                   /\ {s.player1_id, s.player2_id} = Pair(session)
                   /\ \A s2 \in sessions : s2.session_id = s.session_id => s2 = s]_vars

C8_Witness == mpc = "send1" /\ Len(queue) >= 1 /\ session.SessionID \in committed

\* C9: a request does not return the timeout error once a session that took
\* its row has committed.
C9_NoTimeoutAfterCommit ==
    [][\A r \in Reqs : ReturnsTimeout(r) => matchOf[r] = None]_vars

TwoWaiting == Len(queue) >= 2
Commits(n) == Cardinality(committed) > n

TickFails ==
    /\ mpc \in {"delete", "insertSession", "commit"}
    /\ fails' # fails
    /\ mpc' = "sleep"

\* C11: a tick whose DELETE, session INSERT or COMMIT fails changes nothing
\* durable and delivers nothing: the queue is as it was, the sessions table has
\* no row of the tick's session, and no channel or waitingChans entry changes.
C11_FailedTickLeavesNoTrace ==
    [][TickFails =>
          /\ queue' = queue
          /\ session.SessionID \notin SessionIds(sessions')
          /\ chanBuf' = chanBuf
          /\ waitingChans' = waitingChans]_vars

\* a request takes a session from its matchChan and returns it
Receives(r) == pc[r] = "select" /\ pc'[r] = "done" /\ response'[r].status = StatusOK

\* C12 as stated: when a request receives a session, the session's row is in
\* the sessions table, its transaction has committed, and the queue has no row
\* of either of the session's player ids.
C12_ReceivedAfterCommitNoRowOfItsIds ==
    [][\A r \in Reqs :
         Receives(r) =>
             LET s == response'[r].session IN
             /\ SessionRow(s) \in sessions
             /\ s.SessionID \in committed
             /\ Pair(s) \cap QueueIds(queue) = {}]_vars

\* C12 as amended: when a request receives a session, the session's row is in
\* the sessions table, its transaction has committed, and the two rows that
\* the session paired, one of each of its players, are no longer in the queue.
C12_ReceivedAfterCommitPairedRowsGone ==
    [][\A r \in Reqs :
         Receives(r) =>
             LET s == response'[r].session
                 paired == {q \in Reqs : matchOf[q] = s.SessionID}
             IN /\ SessionRow(s) \in sessions
                /\ s.SessionID \in committed
                /\ Cardinality(paired) = 2
                /\ {player[q].ID : q \in paired} = Pair(s)
                /\ \A i \in DOMAIN queue : queue[i].req \notin paired]_vars

\* a request has returned a session while a later row of one of the session's
\* player ids is in the queue
C12_Witness ==
    \E r \in Reqs :
        /\ pc[r] = "done"
        /\ response[r].status = StatusOK
        /\ Pair(response[r].session) \cap QueueIds(queue) # {}

\* the handle of request r is the waitingChans entry of its player id
HasHandle(r) == player[r].ID # "" /\ waitingChans[player[r].ID] = r
Unregisters(r) == pc[r] = "select" /\ pc'[r] = "dequeue"
Delivers == mpc \in {"send1", "send2"} /\ mpc' # mpc

\* C13: the handle of a request leaves waitingChans only in a send of the
\* processor or in the request's own timeout path, and a timeout path that
\* finds its handle gone leaves waitingChans as it is.
C13_HandleRemovedOnceByDeliverOrOwnTimeout ==
    [][\A r \in Reqs :
         /\ (HasHandle(r) /\ waitingChans'[player[r].ID] # r) =>
                (Delivers \/ Unregisters(r))
         /\ (Unregisters(r) /\ ~HasHandle(r)) => waitingChans' = waitingChans]_vars

\* a request gets past Decode and runs its INSERT while a row of its id is in the queue
EnqueuesPresentId(r) ==
    pc[r] = "idle" /\ pc'[r] # "idle" /\ player'[r].ID \in QueueIds(queue)

\* C14: in every state the queue has one row per player id at most; an INSERT
\* of an id that has a row fails, and every row, that of the id included, keeps
\* its place, its rating and its waiting_since.
C14_OneRowPerIdExistingRowKept ==
    /\ [](Cardinality(QueueIds(queue)) = Len(queue))
    /\ [][\A r \in Reqs :
            EnqueuesPresentId(r) =>
                /\ pc'[r] = "done"
                /\ response'[r].status # StatusOK
                /\ Len(queue') = Len(queue)
                /\ \A i \in DOMAIN queue :
                       /\ queue'[i].player_id = queue[i].player_id
                       /\ queue'[i].rating = queue[i].rating
                       /\ queue'[i].waiting_since = queue[i].waiting_since]_vars

\* an INSERT was refused for a row of the same id that came with another
\* rating at an earlier clock reading, and that row is in the queue
C14_Witness ==
    \E r \in Reqs, i \in DOMAIN queue :
        /\ pc[r] = "done"
        /\ response[r].status = StatusInternalServerError
        /\ fails = 0
        /\ queue[i].player_id = player[r].ID
        /\ queue[i].req < r
        /\ queue[i].rating # player[r].Rating
        /\ queue[i].waiting_since < now

\* a request writes its channel into waitingChans
Registers(r) == pc[r] = "register" /\ pc'[r] = "select"

\* C15: when a request writes its channel into waitingChans, the map has no
\* entry of its player id.
C15_RegisterFindsNoEntry ==
    [][\A r \in Reqs : Registers(r) => waitingChans[player[r].ID] = NoReq]_vars

\* C16: the processor's sends never wait.  A channel holds one session at
\* most; a channel that is in waitingChans is empty; a send goes to the empty
\* channel of a request that waits in its select, so no channel is sent to
\* twice; the mutex is held only between the two sends, and each send, the
\* mutex taken, can be done at once.
C16_SendNeverBlocks ==
    /\ [](/\ \A r \in Reqs : Len(chanBuf[r]) <= ChanCap
          /\ \A id \in PlayerIds :
                 waitingChans[id] # NoReq => chanBuf[waitingChans[id]] = <<>>
          /\ mutexHeld <=> mpc = "send2"
          /\ mpc = "send1" => ENABLED Send1
          /\ mpc = "send2" => ENABLED Send2)
    /\ [][\A r \in Reqs :
            Len(chanBuf'[r]) > Len(chanBuf[r]) =>
                /\ Delivers
                /\ chanBuf[r] = <<>>
                /\ pc[r] = "select"]_vars

\* the processor holds the mutex after a send into a channel while another
\* request waits for the mutex to write its channel
C16_Witness ==
    /\ mutexHeld
    /\ \E r \in Reqs : chanBuf[r] # <<>>
    /\ \E q \in Reqs : pc[q] = "register"

\* C17: a session that createSession returns has an id that no session it
\* returned before has, restarts of the process included, and no two rows of
\* the sessions table have one id.
C17_SessionIdsNeverRepeat ==
    /\ [](\A s1, s2 \in sessions : s1.session_id = s2.session_id => s1 = s2)
    /\ [](SessionIds(sessions) \subseteq minted)
    /\ [][TickMatches => session'.SessionID \notin minted]_vars

\* two sessions have been created, and the process was restarted while a
\* request was being handled (that request ended without a response)
C17_Witness ==
    /\ Cardinality(minted) >= 2
    /\ restarts > 0
    /\ \E r \in Reqs : pc[r] = "done" /\ response[r] = NoResponse

\* C18: an entry of waitingChans is the channel of a request of that player id
\* that waits in its select; so when every request of an id has returned,
\* waitingChans has no entry of the id.
C18_EntryOnlyOfWaitingRequest ==
    \A id \in PlayerIds :
        waitingChans[id] # NoReq =>
            /\ player[waitingChans[id]].ID = id
            /\ pc[waitingChans[id]] = "select"

\* every request has returned, among them one that returned a session and one
\* of the same player id that returned the timeout error
C18_Witness ==
    /\ \A r \in Reqs : pc[r] = "done"
    /\ \E r, q \in Reqs :
          /\ player[r].ID = player[q].ID
          /\ response[r].status = StatusOK
          /\ response[q].status = StatusGatewayTimeout

\* the timeout path's deleteWaitingPlayer of request r
Dequeues(r) == pc[r] = "dequeue" /\ pc'[r] = "done"

\* C19: the timeout path of a request removes from waitingChans no channel but
\* its own, and from the queue no row but the one it inserted.
C19_TimeoutRemovesOnlyItsOwn ==
    [][\A r \in Reqs :
         /\ Unregisters(r) =>
                \A id \in PlayerIds :
                    waitingChans'[id] # waitingChans[id] => waitingChans[id] = r
         /\ Dequeues(r) =>
                \A i \in DOMAIN queue :
                    (\A j \in DOMAIN queue' : queue'[j] # queue[i]) => queue[i].req = r]_vars

\* C20: a session that a request returns has the request's player id as one
\* of its two players and was made from the row that this request inserted.
C20_ReturnedSessionIsOfOwnRow ==
    [][\A r \in Reqs :
         Receives(r) =>
             /\ player[r].ID \in Pair(response'[r].session)
             /\ matchOf[r] = response'[r].session.SessionID]_vars

==========================================================================
